---- MODULE Spec2Model ----
(***************************************************************************)
(* Model of the payments engine of src/src/main.rs.                        *)
(*                                                                         *)
(* A CSV field is a sequence of one-character strings.  A record is a      *)
(* sequence of fields, as csv::StringRecord.  Decimal amounts are kept as  *)
(* integers counting ten-thousandths (round_dp(4) leaves at most four      *)
(* fractional digits); Decimal addition and subtraction are exact on them. *)
(***************************************************************************)
EXTENDS Integers, Sequences, FiniteSets, TLC

VARIABLES
    accounts,      \* HashMap<ClientId, AccountInfo>
    transactions,  \* HashMap<TxnId, (TxnKind, ClientId, Decimal)>
    disputed,      \* HashSet<TxnId>
    record,        \* the record the loop read last (<<>>: none, or a reader error)
    txn,           \* what txn_of_string_record returned for it
    outcome,       \* how the loop body ended for it
    hist,          \* the reader's results so far, in runs that remember their input
    log,           \* the lines the loop wrote to stderr for the last record
    report         \* the rows written to stdout after the loop

vars == <<accounts, transactions, disputed, record, txn, outcome, hist, log, report>>

core == <<accounts, transactions, disputed>>

(***************************************************************************)
(* Bounds of the model.                                                    *)
(***************************************************************************)
\* the amounts of the engine runs are 1.0, 2.0, ..., MaxAmount.0
MaxAmount == 2
\* number of reader results of a run that remembers its whole input (SpecRun)
MaxRun == 3
\* the adapter is fed records of 1..MaxFields fields (SpecAdapter)
MaxFields == 5

(***************************************************************************)
(* Program constants.                                                      *)
(***************************************************************************)
\* ClientId = u16: the digits of u16::MAX
ClientIdMax == <<"6", "5", "5", "3", "5">>
\* TxnId = u32: the digits of u32::MAX
TxnIdMax == <<"4", "2", "9", "4", "9", "6", "7", "2", "9", "5">>
\* round_dp(4)
AmountDp == 4

(***************************************************************************)
(* Text: characters, digits, trimming.                                     *)
(***************************************************************************)
DigitChars == <<"0", "1", "2", "3", "4", "5", "6", "7", "8", "9">>

IsDigit(ch) == \E i \in 1..10 : DigitChars[i] = ch

DigitVal(ch) == (CHOOSE i \in 1..10 : DigitChars[i] = ch) - 1

AllDigits(s) == \A i \in 1..Len(s) : IsDigit(s[i])

RECURSIVE DigitsVal(_)
DigitsVal(s) ==
    IF Len(s) = 0 THEN 0
    ELSE 10 * DigitsVal(SubSeq(s, 1, Len(s) - 1)) + DigitVal(s[Len(s)])

RECURSIVE Pow10(_)
Pow10(n) == IF n = 0 THEN 1 ELSE 10 * Pow10(n - 1)

RECURSIVE TrimStart(_)
TrimStart(s) ==
    IF Len(s) > 0 /\ s[1] = " " THEN TrimStart(Tail(s)) ELSE s

RECURSIVE TrimEnd(_)
TrimEnd(s) ==
    IF Len(s) > 0 /\ s[Len(s)] = " " THEN TrimEnd(SubSeq(s, 1, Len(s) - 1)) ELSE s

\* record.trim(): every field loses its leading and trailing whitespace
TrimRecord(r) == [i \in 1..Len(r) |-> TrimEnd(TrimStart(r[i]))]

(***************************************************************************)
(* str::parse::<u16>() and str::parse::<u32>(): an optional "+", then one  *)
(* or more decimal digits, the value no greater than the type's maximum.   *)
(* The range test compares digit strings, so that it does not depend on    *)
(* the width of the model checker's integers.                              *)
(***************************************************************************)
RECURSIVE StripZeros(_)
StripZeros(s) ==
    IF Len(s) > 1 /\ s[1] = "0" THEN StripZeros(Tail(s)) ELSE s

\* a <= b for digit strings of the same length
RECURSIVE LeqDigits(_, _)
LeqDigits(a, b) ==
    IF Len(a) = 0 THEN TRUE
    ELSE IF DigitVal(a[1]) < DigitVal(b[1]) THEN TRUE
    ELSE IF DigitVal(a[1]) > DigitVal(b[1]) THEN FALSE
    ELSE LeqDigits(Tail(a), Tail(b))

InRange(digits, max) ==
    LET d == StripZeros(digits)
    IN  Len(d) < Len(max) \/ (Len(d) = Len(max) /\ LeqDigits(d, max))

ParseUnsigned(s, max) ==
    IF Len(s) = 0 THEN [ok |-> FALSE, val |-> 0]
    ELSE IF Len(s) = 1 /\ s[1] \in {"+", "-"} THEN [ok |-> FALSE, val |-> 0]
    ELSE LET body == IF s[1] = "+" THEN Tail(s) ELSE s
         IN  IF AllDigits(body) /\ InRange(body, max)
             THEN [ok |-> TRUE, val |-> DigitsVal(body)]
             ELSE [ok |-> FALSE, val |-> 0]

ParseClientId(s) == ParseUnsigned(s, ClientIdMax)

ParseTxnId(s) == ParseUnsigned(s, TxnIdMax)

(***************************************************************************)
(* str::parse::<Decimal>(): an optional sign, digits with at most one      *)
(* point, at least one digit.  The value is mant / 10^scale, negated when  *)
(* neg.                                                                    *)
(***************************************************************************)
PointAt(s) == IF \E i \in 1..Len(s) : s[i] = "."
              THEN CHOOSE i \in 1..Len(s) : s[i] = "."
              ELSE 0

ParseDecimal(s) ==
    LET bad    == [ok |-> FALSE, neg |-> FALSE, mant |-> 0, scale |-> 0]
        signed == Len(s) > 0 /\ s[1] \in {"+", "-"}
        body   == IF signed THEN Tail(s) ELSE s
        p      == PointAt(body)
        int    == IF p = 0 THEN body ELSE SubSeq(body, 1, p - 1)
        frac   == IF p = 0 THEN <<>> ELSE SubSeq(body, p + 1, Len(body))
    IN  IF Len(s) = 0 THEN bad
        ELSE IF ~AllDigits(int) \/ ~AllDigits(frac) THEN bad
        ELSE IF Len(int) + Len(frac) = 0 THEN bad
        ELSE [ok    |-> TRUE,
              neg   |-> signed /\ s[1] = "-",
              mant  |-> DigitsVal(int \o frac),
              scale |-> Len(frac)]

\* Decimal::round_dp(4), midpoint to the nearest even digit, as ten-thousandths
RoundDp(d) ==
    LET mag == IF d.scale <= AmountDp
               THEN d.mant * Pow10(AmountDp - d.scale)
               ELSE LET unit == Pow10(d.scale - AmountDp)
                        q    == d.mant \div unit
                        rem  == d.mant % unit
                    IN  IF 2 * rem > unit \/ (2 * rem = unit /\ q % 2 = 1)
                        THEN q + 1
                        ELSE q
    IN  IF d.neg THEN 0 - mag ELSE mag

(***************************************************************************)
(* The adapter: txn_of_string_record.                                      *)
(***************************************************************************)
KwDeposit == <<"d", "e", "p", "o", "s", "i", "t">>
KwWithdrawal == <<"w", "i", "t", "h", "d", "r", "a", "w", "a", "l">>
KwDispute == <<"d", "i", "s", "p", "u", "t", "e">>
KwResolve == <<"r", "e", "s", "o", "l", "v", "e">>
KwChargeback == <<"c", "h", "a", "r", "g", "e", "b", "a", "c", "k">>

Err(msg) == [ok |-> FALSE, err |-> msg, type |-> "None", client |-> 0, tx |-> 0, amount |-> 0]

Ok(type, client, tx, amount) ==
    [ok |-> TRUE, err |-> "", type |-> type, client |-> client, tx |-> tx, amount |-> amount]

\* the r.len() == 3 branch
Txn3(r) ==
    LET client == ParseClientId(r[2])
        tx     == ParseTxnId(r[3])
    IN  IF ~client.ok THEN Err("ParseIntError")
        ELSE IF ~tx.ok THEN Err("ParseIntError")
        ELSE IF r[1] = KwDispute THEN Ok("Dispute", client.val, tx.val, 0)
        ELSE IF r[1] = KwResolve THEN Ok("Resolve", client.val, tx.val, 0)
        ELSE IF r[1] = KwChargeback THEN Ok("Chargeback", client.val, tx.val, 0)
        ELSE Err("invalid param")

\* the r.len() == 4 branch with amount >= 0 for amount > 0
Txn4AcceptsZero(r) ==
    LET client == ParseClientId(r[2])
        tx     == ParseTxnId(r[3])
        dec    == ParseDecimal(r[4])
        amount == RoundDp(dec)
    IN  IF ~client.ok THEN Err("ParseIntError")
        ELSE IF ~tx.ok THEN Err("ParseIntError")
        ELSE IF ~dec.ok THEN Err("DecimalError")
        ELSE IF amount >= 0
             THEN IF r[1] = KwDeposit THEN Ok("Deposit", client.val, tx.val, amount)
                  ELSE IF r[1] = KwWithdrawal THEN Ok("Withdrawal", client.val, tx.val, amount)
                  ELSE Err("invalid param")
             ELSE Err("update amount less than or equal to zero")

\* the r.len() == 4 branch
Txn4(r) ==
    LET client == ParseClientId(r[2])
        tx     == ParseTxnId(r[3])
        dec    == ParseDecimal(r[4])
        amount == RoundDp(dec)
    IN  IF ~client.ok THEN Err("ParseIntError")
        ELSE IF ~tx.ok THEN Err("ParseIntError")
        ELSE IF ~dec.ok THEN Err("DecimalError")
        ELSE IF amount > 0
             THEN IF r[1] = KwDeposit THEN Ok("Deposit", client.val, tx.val, amount)
                  ELSE IF r[1] = KwWithdrawal THEN Ok("Withdrawal", client.val, tx.val, amount)
                  ELSE Err("invalid param")
             ELSE Err("update amount less than or equal to zero")

txn_of_string_record(r) ==
    IF Len(r) = 3 THEN Txn3(r)
    ELSE IF Len(r) = 4 THEN Txn4(r)
    ELSE Err("invalid record")

\* lines 117-120: the record is trimmed, then handed to the adapter
ParseRecord(raw) == txn_of_string_record(TrimRecord(raw))

(***************************************************************************)
(* The engine state: accounts (client -> AccountInfo), transactions        *)
(* (tx -> <<kind, client, amount>>) and the set of disputed tx ids.        *)
(***************************************************************************)
AccountInfoDefault == [available |-> 0, held |-> 0, is_locked |-> FALSE]

\* accounts.entry(client).or_insert_with(AccountInfo::default)
EntryOrInsert(accts, client) ==
    IF client \in DOMAIN accts THEN accts
    ELSE [c \in DOMAIN accts \cup {client} |->
             IF c = client THEN AccountInfoDefault ELSE accts[c]]

\* transactions.insert(tx, (kind, client, amount))
TxnInsert(txns, tx, kind, client, amount) ==
    [t \in DOMAIN txns \cup {tx} |->
        IF t = tx THEN [kind |-> kind, client |-> client, amount |-> amount]
        ELSE txns[t]]

Result(accts, txns, disp, out) ==
    [accounts |-> accts, transactions |-> txns, disputed |-> disp, outcome |-> out]

\* Deposit without the test of is_locked
DepositNoLockCheck(accts, txns, disp, client, tx, amount) ==
    LET a1 == EntryOrInsert(accts, client)
    IN  IF tx \in DOMAIN txns THEN Result(a1, txns, disp, "Duplicate")
        ELSE Result([a1 EXCEPT ![client].available = @ + amount],
                    TxnInsert(txns, tx, "DepositKind", client, amount),
                    disp, "Applied")

\* Txn::Deposit arm
Deposit(accts, txns, disp, client, tx, amount) ==
    LET a1 == EntryOrInsert(accts, client)
    IN  IF a1[client].is_locked THEN Result(a1, txns, disp, "Locked")
        ELSE IF tx \in DOMAIN txns THEN Result(a1, txns, disp, "Duplicate")
        ELSE Result([a1 EXCEPT ![client].available = @ + amount],
                    TxnInsert(txns, tx, "DepositKind", client, amount),
                    disp, "Applied")

\* Withdrawal without the test amount <= available
WithdrawalNoFundsCheck(accts, txns, disp, client, tx, amount) ==
    LET a1 == EntryOrInsert(accts, client)
        t1 == TxnInsert(txns, tx, "WithdrawalKind", client, amount)
    IN  IF a1[client].is_locked THEN Result(a1, txns, disp, "Locked")
        ELSE IF tx \in DOMAIN txns THEN Result(a1, txns, disp, "Duplicate")
        ELSE Result([a1 EXCEPT ![client].available = @ - amount], t1, disp, "Applied")

\* Withdrawal without the test of the transaction table
WithdrawalNoDuplicateCheck(accts, txns, disp, client, tx, amount) ==
    LET a1 == EntryOrInsert(accts, client)
        t1 == TxnInsert(txns, tx, "WithdrawalKind", client, amount)
    IN  IF a1[client].is_locked THEN Result(a1, txns, disp, "Locked")
        ELSE IF amount <= a1[client].available
             THEN Result([a1 EXCEPT ![client].available = @ - amount], t1, disp, "Applied")
             ELSE Result(a1, t1, disp, "Insufficient")

\* Withdrawal that stores its record with the kind of a Deposit
WithdrawalDepositKind(accts, txns, disp, client, tx, amount) ==
    LET a1 == EntryOrInsert(accts, client)
        t1 == TxnInsert(txns, tx, "DepositKind", client, amount)
    IN  IF a1[client].is_locked THEN Result(a1, txns, disp, "Locked")
        ELSE IF tx \in DOMAIN txns THEN Result(a1, txns, disp, "Duplicate")
        ELSE IF amount <= a1[client].available
             THEN Result([a1 EXCEPT ![client].available = @ - amount], t1, disp, "Applied")
             ELSE Result(a1, t1, disp, "Insufficient")

\* Txn::Withdrawal arm: the record is inserted before the balance is tested
Withdrawal(accts, txns, disp, client, tx, amount) ==
    LET a1 == EntryOrInsert(accts, client)
        t1 == TxnInsert(txns, tx, "WithdrawalKind", client, amount)
    IN  IF a1[client].is_locked THEN Result(a1, txns, disp, "Locked")
        ELSE IF tx \in DOMAIN txns THEN Result(a1, txns, disp, "Duplicate")
        ELSE IF amount <= a1[client].available
             THEN Result([a1 EXCEPT ![client].available = @ - amount], t1, disp, "Applied")
             ELSE Result(a1, t1, disp, "Insufficient")

\* Dispute that takes the account entry before it looks the transaction up
DisputeEntryFirst(accts, txns, disp, client, tx) ==
    LET a1 == EntryOrInsert(accts, client)
    IN  IF tx \notin DOMAIN txns THEN Result(a1, txns, disp, "Unknown")
        ELSE IF client # txns[tx].client THEN Result(a1, txns, disp, "Mismatch")
        ELSE IF a1[client].is_locked THEN Result(a1, txns, disp, "Locked")
        ELSE IF a1[client].available >= txns[tx].amount
             THEN Result([a1 EXCEPT ![client].available = @ - txns[tx].amount,
                                    ![client].held = @ + txns[tx].amount],
                         txns, disp \cup {tx}, "Applied")
             ELSE Result(a1, txns, disp, "NotEnough")

\* Dispute that asks for more than the amount to be available
DisputeStrict(accts, txns, disp, client, tx) ==
    IF tx \notin DOMAIN txns THEN Result(accts, txns, disp, "Unknown")
    ELSE IF client # txns[tx].client THEN Result(accts, txns, disp, "Mismatch")
    ELSE LET a1     == EntryOrInsert(accts, client)
             amount == txns[tx].amount
         IN  IF a1[client].is_locked THEN Result(a1, txns, disp, "Locked")
             ELSE IF a1[client].available > amount
                  THEN Result([a1 EXCEPT ![client].available = @ - amount,
                                         ![client].held = @ + amount],
                              txns, disp \cup {tx}, "Applied")
                  ELSE Result(a1, txns, disp, "NotEnough")

\* Dispute that reads the stored kind: a disputed withdrawal is only added to held
DisputeByKind(accts, txns, disp, client, tx) ==
    IF tx \notin DOMAIN txns THEN Result(accts, txns, disp, "Unknown")
    ELSE IF client # txns[tx].client THEN Result(accts, txns, disp, "Mismatch")
    ELSE LET a1     == EntryOrInsert(accts, client)
             amount == txns[tx].amount
         IN  IF a1[client].is_locked THEN Result(a1, txns, disp, "Locked")
             ELSE IF txns[tx].kind = "WithdrawalKind"
                  THEN Result([a1 EXCEPT ![client].held = @ + amount],
                              txns, disp \cup {tx}, "Applied")
             ELSE IF a1[client].available >= amount
                  THEN Result([a1 EXCEPT ![client].available = @ - amount,
                                         ![client].held = @ + amount],
                              txns, disp \cup {tx}, "Applied")
                  ELSE Result(a1, txns, disp, "NotEnough")

\* Dispute without the test of the available funds
DisputeNoFundsCheck(accts, txns, disp, client, tx) ==
    IF tx \notin DOMAIN txns THEN Result(accts, txns, disp, "Unknown")
    ELSE IF client # txns[tx].client THEN Result(accts, txns, disp, "Mismatch")
    ELSE LET a1     == EntryOrInsert(accts, client)
             amount == txns[tx].amount
         IN  IF a1[client].is_locked THEN Result(a1, txns, disp, "Locked")
             ELSE Result([a1 EXCEPT ![client].available = @ - amount,
                                    ![client].held = @ + amount],
                         txns, disp \cup {tx}, "Applied")

\* Dispute without the owner test: it holds the funds of the owner of tx
DisputeNoOwnerCheck(accts, txns, disp, client, tx) ==
    IF tx \notin DOMAIN txns THEN Result(accts, txns, disp, "Unknown")
    ELSE LET owner  == txns[tx].client
             a1     == EntryOrInsert(accts, owner)
             amount == txns[tx].amount
         IN  IF a1[owner].is_locked THEN Result(a1, txns, disp, "Locked")
             ELSE IF a1[owner].available >= amount
                  THEN Result([a1 EXCEPT ![owner].available = @ - amount,
                                         ![owner].held = @ + amount],
                              txns, disp \cup {tx}, "Applied")
                  ELSE Result(a1, txns, disp, "NotEnough")

\* Txn::Dispute arm
Dispute(accts, txns, disp, client, tx) ==
    IF tx \notin DOMAIN txns THEN Result(accts, txns, disp, "Unknown")
    ELSE IF client # txns[tx].client THEN Result(accts, txns, disp, "Mismatch")
    ELSE LET a1     == EntryOrInsert(accts, client)
             amount == txns[tx].amount
         IN  IF a1[client].is_locked THEN Result(a1, txns, disp, "Locked")
             ELSE IF a1[client].available >= amount
                  THEN Result([a1 EXCEPT ![client].available = @ - amount,
                                         ![client].held = @ + amount],
                              txns, disp \cup {tx}, "Applied")
                  ELSE Result(a1, txns, disp, "NotEnough")

\* Resolve that credits available without releasing the held amount
ResolveKeepsHeld(accts, txns, disp, client, tx) ==
    IF tx \notin DOMAIN txns THEN Result(accts, txns, disp, "Unknown")
    ELSE IF client # txns[tx].client THEN Result(accts, txns, disp, "Mismatch")
    ELSE LET a1 == EntryOrInsert(accts, client)
         IN  IF a1[client].is_locked THEN Result(a1, txns, disp, "Locked")
             ELSE IF tx \notin disp THEN Result(a1, txns, disp, "Undisputed")
             ELSE Result([a1 EXCEPT ![client].available = @ + txns[tx].amount],
                         txns, disp \ {tx}, "Applied")

\* Resolve that forgets disputed.remove
ResolveKeepsDisputed(accts, txns, disp, client, tx) ==
    IF tx \notin DOMAIN txns THEN Result(accts, txns, disp, "Unknown")
    ELSE IF client # txns[tx].client THEN Result(accts, txns, disp, "Mismatch")
    ELSE LET a1 == EntryOrInsert(accts, client)
         IN  IF a1[client].is_locked THEN Result(a1, txns, disp, "Locked")
             ELSE IF tx \in disp
                  THEN Result([a1 EXCEPT ![client].available = @ + txns[tx].amount,
                                         ![client].held = @ - txns[tx].amount],
                              txns, disp, "Applied")
                  ELSE Result(a1, txns, disp, "Undisputed")

\* Txn::Resolve arm
Resolve(accts, txns, disp, client, tx) ==
    IF tx \notin DOMAIN txns THEN Result(accts, txns, disp, "Unknown")
    ELSE IF client # txns[tx].client THEN Result(accts, txns, disp, "Mismatch")
    ELSE LET a1     == EntryOrInsert(accts, client)
             amount == txns[tx].amount
         IN  IF a1[client].is_locked THEN Result(a1, txns, disp, "Locked")
             ELSE IF tx \notin disp THEN Result(a1, txns, disp, "Undisputed")
             ELSE Result([a1 EXCEPT ![client].available = @ + amount,
                                    ![client].held = @ - amount],
                         txns, disp \ {tx}, "Applied")

\* Chargeback that does not lock the account
ChargebackNoLock(accts, txns, disp, client, tx) ==
    IF tx \notin DOMAIN txns THEN Result(accts, txns, disp, "Unknown")
    ELSE IF client # txns[tx].client THEN Result(accts, txns, disp, "Mismatch")
    ELSE LET a1 == EntryOrInsert(accts, client)
         IN  IF a1[client].is_locked THEN Result(a1, txns, disp, "Locked")
             ELSE IF tx \notin disp THEN Result(a1, txns, disp, "Undisputed")
             ELSE Result([a1 EXCEPT ![client].held = @ - txns[tx].amount],
                         txns, disp \ {tx}, "Applied")

\* Chargeback without the test of the dispute set
ChargebackNoDisputeCheck(accts, txns, disp, client, tx) ==
    IF tx \notin DOMAIN txns THEN Result(accts, txns, disp, "Unknown")
    ELSE IF client # txns[tx].client THEN Result(accts, txns, disp, "Mismatch")
    ELSE LET a1 == EntryOrInsert(accts, client)
         IN  IF a1[client].is_locked THEN Result(a1, txns, disp, "Locked")
             ELSE Result([a1 EXCEPT ![client].held = @ - txns[tx].amount,
                                    ![client].is_locked = TRUE],
                         txns, disp \ {tx}, "Applied")

\* Chargeback without the test of is_locked
ChargebackNoLockCheck(accts, txns, disp, client, tx) ==
    IF tx \notin DOMAIN txns THEN Result(accts, txns, disp, "Unknown")
    ELSE IF client # txns[tx].client THEN Result(accts, txns, disp, "Mismatch")
    ELSE LET a1 == EntryOrInsert(accts, client)
         IN  IF tx \in disp
             THEN Result([a1 EXCEPT ![client].held = @ - txns[tx].amount,
                                    ![client].is_locked = TRUE],
                         txns, disp \ {tx}, "Applied")
             ELSE Result(a1, txns, disp, "Undisputed")

\* Txn::Chargeback arm
Chargeback(accts, txns, disp, client, tx) ==
    IF tx \notin DOMAIN txns THEN Result(accts, txns, disp, "Unknown")
    ELSE IF client # txns[tx].client THEN Result(accts, txns, disp, "Mismatch")
    ELSE LET a1     == EntryOrInsert(accts, client)
             amount == txns[tx].amount
         IN  IF a1[client].is_locked THEN Result(a1, txns, disp, "Locked")
             ELSE IF tx \notin disp THEN Result(a1, txns, disp, "Undisputed")
             ELSE Result([a1 EXCEPT ![client].held = @ - amount,
                                    ![client].is_locked = TRUE],
                         txns, disp \ {tx}, "Applied")

\* the match of lines 126-259 on a parsed event
Apply(accts, txns, disp, ev) ==
    CASE ev.type = "Deposit"    -> Deposit(accts, txns, disp, ev.client, ev.tx, ev.amount)
      [] ev.type = "Withdrawal" -> Withdrawal(accts, txns, disp, ev.client, ev.tx, ev.amount)
      [] ev.type = "Dispute"    -> Dispute(accts, txns, disp, ev.client, ev.tx)
      [] ev.type = "Resolve"    -> Resolve(accts, txns, disp, ev.client, ev.tx)
      [] ev.type = "Chargeback" -> Chargeback(accts, txns, disp, ev.client, ev.tx)

(***************************************************************************)
(* Inputs of the engine runs (Spec): every event kind for two clients and  *)
(* two transaction ids, so that an event can name its own or the other     *)
(* client's transaction, a fresh or a used id; and records the adapter     *)
(* rejects.                                                                *)
(***************************************************************************)
NumTok(n) == <<DigitChars[n + 1]>>

ClientToks == {NumTok(c) : c \in 1..2}

TxToks == {NumTok(t) : t \in 1..2}

AmountToks == {NumTok(k) \o <<".", "0">> : k \in 1..MaxAmount}

MoneyRecords ==
    {<<kw, c, t, a>> : kw \in {KwDeposit, KwWithdrawal}, c \in ClientToks,
                       t \in TxToks, a \in AmountToks}

DisputeRecords ==
    {<<kw, c, t>> : kw \in {KwDispute, KwResolve, KwChargeback}, c \in ClientToks,
                    t \in TxToks}

\* records the adapter rejects
BadRecords ==
    { <<KwDeposit, <<"1">>, <<"1">>>>,
      <<KwDispute, <<"1">>, <<"1">>, <<"2", ".", "0">>>>,
      <<KwDeposit, <<"1">>, <<"1">>, <<"0">>>>,
      <<KwWithdrawal, <<"1">>, <<"1">>, <<"-", "2", ".", "0">>>>,
      <<KwDeposit, <<"x">>, <<"1">>, <<"2", ".", "0">>>>,
      <<KwDispute, <<"1">>>> }

Records == MoneyRecords \cup DisputeRecords \cup BadRecords

(***************************************************************************)
(* Inputs of the runs that remember their input (SpecRun): the records of  *)
(* the four scenarios the documentation lists, and malformed records.      *)
(***************************************************************************)
Rec3(kw, c, t) == <<kw, c, t>>

Rec4(kw, c, t, a) == <<kw, c, t, a>>

Scenario1 ==
    << Rec4(KwDeposit, <<"1">>, <<"1">>, <<"5", ".", "0">>),
       Rec4(KwDeposit, <<"1">>, <<"2">>, <<"3", ".", "0">>),
       Rec4(KwWithdrawal, <<"1">>, <<"3">>, <<"2", ".", "0">>) >>

Scenario2 ==
    << Rec4(KwDeposit, <<"2">>, <<"1", "0">>, <<"1", "0", ".", "0">>),
       Rec3(KwDispute, <<"2">>, <<"1", "0">>),
       Rec3(KwChargeback, <<"2">>, <<"1", "0">>) >>

Scenario3 ==
    << Rec4(KwDeposit, <<"3">>, <<"2", "0">>, <<"7", ".", "5">>),
       Rec3(KwDispute, <<"3">>, <<"2", "0">>),
       Rec3(KwResolve, <<"3">>, <<"2", "0">>) >>

Scenario4 ==
    << Rec4(KwWithdrawal, <<"4">>, <<"3", "0">>, <<"5", ".", "0">>) >>

Range(seq) == {seq[i] : i \in 1..Len(seq)}

MalformedRecords ==
    { <<<<"t", "y", "p", "e">>, <<"c">>, <<"t", "x">>, <<"a">>>>,
      Rec4(KwDeposit, <<"1">>, <<"1">>, <<"0", ".", "0", "0", "0", "0", "5">>),
      Rec3(KwDeposit, <<"1">>, <<"1">>),
      <<KwDispute, <<"2">>>> }

RunRecords ==
    Range(Scenario1) \cup Range(Scenario2) \cup Range(Scenario3) \cup Range(Scenario4)
        \cup MalformedRecords

(***************************************************************************)
(* Inputs of the adapter alone (SpecAdapter): records of 1..MaxFields      *)
(* fields over keywords, ids and amounts at and around the limits.         *)
(***************************************************************************)
KeywordToks ==
    { KwDeposit, KwWithdrawal, KwDispute, KwResolve, KwChargeback,
      <<"D", "e", "p", "o", "s", "i", "t">>, <<"t", "y", "p", "e">>, <<>> }

AdapterClientToks ==
    { <<"1">>, <<" ", "2", " ">>, <<"+", "7">>, <<"0", "0", "3">>,
      <<"6", "5", "5", "3", "5">>, <<"6", "5", "5", "3", "6">>,
      <<"-", "1">>, <<"1", ".", "0">>, <<"x">>, <<>> }

AdapterTxToks ==
    { <<"1">>, <<"7", "0", "0", "0", "0">>,
      <<"4", "2", "9", "4", "9", "6", "7", "2", "9", "6">>, <<"-">>, <<"t", "x">> }

AdapterAmountToks ==
    { <<"2", ".", "0">>, <<"1", ".", "2", "3", "4", "5", "6">>, <<" ", "7", ".", "5">>,
      <<"0">>, <<"0", ".", "0">>, <<"-", "1", ".", "5">>, <<"-", "0">>,
      <<"0", ".", "0", "0", "0", "1">>,
      <<"0", ".", "0", "0", "0", "0", "4">>,
      <<"0", ".", "0", "0", "0", "0", "5">>,
      <<"0", ".", "0", "0", "0", "0", "5", "1">>,
      <<"0", ".", "0", "0", "0", "0", "6">>,
      <<"0", ".", "0", "0", "0", "1", "5">>,
      <<"a", "b", "c">>, <<>> }

\* n further fields after the fourth
RECURSIVE Extra(_)
Extra(n) == IF n = 0 THEN <<>> ELSE <<<<"0">>>> \o Extra(n - 1)

AdapterRecords ==
    {SubSeq(<<kw, c, t, a>> \o Extra(MaxFields - 4), 1, n) :
        kw \in KeywordToks, c \in AdapterClientToks, t \in AdapterTxToks,
        a \in AdapterAmountToks, n \in 1..MaxFields}

\* ParseRecord, evaluated once for each record of the engine runs' inputs
RecordsTable == [raw \in Records |-> ParseRecord(raw)]

RunRecordsTable == [raw \in RunRecords |-> ParseRecord(raw)]

Parsed(raw) ==
    IF raw \in Records THEN RecordsTable[raw]
    ELSE IF raw \in RunRecords THEN RunRecordsTable[raw]
    ELSE ParseRecord(raw)

(***************************************************************************)
(* The loop of process_file, one record per step.                          *)
(***************************************************************************)
\* the loop body leaving the loop's tables behind on a record the adapter rejects
ProcessRecordBadTxnResets(accts, txns, disp, raw) ==
    LET ev == Parsed(raw)
    IN  IF ~ev.ok THEN Result(<<>>, <<>>, {}, "BadTxn")
        ELSE Apply(accts, txns, disp, ev)

\* one pass of the loop body of lines 117-259 on a record the reader produced
ProcessRecord(accts, txns, disp, raw) ==
    LET ev == Parsed(raw)
    IN  IF ~ev.ok THEN Result(accts, txns, disp, "BadTxn")
        ELSE Apply(accts, txns, disp, ev)

\* the branches' lines with the one of the owner mismatch left out
DiagnosticSilentMismatch(out) ==
    CASE out = "BadTxn"       -> <<"Bad txn">>
      [] out = "Locked"       -> <<"Client account is locked, skipping">>
      [] out = "Duplicate"    -> <<"Duplicate txn in record">>
      [] out = "Insufficient" -> <<"Attempt to withdraw more than available">>
      [] out = "Mismatch"     -> <<>>
      [] out = "NotEnough"    -> <<"'dispute' without enough available">>
      [] out = "Undisputed"   -> <<"called on undisputed transaction">>
      [] out = "Unknown"      -> <<>>
      [] out = "Applied"      -> <<>>

\* the eprintln! of the branch the loop body ended in (none where the code
\* continues or falls through without one)
Diagnostic(out) ==
    CASE out = "BadTxn"       -> <<"Bad txn">>
      [] out = "Locked"       -> <<"Client account is locked, skipping">>
      [] out = "Duplicate"    -> <<"Duplicate txn in record">>
      [] out = "Insufficient" -> <<"Attempt to withdraw more than available">>
      [] out = "Mismatch"     -> <<"transaction clients don't match">>
      [] out = "NotEnough"    -> <<"'dispute' without enough available">>
      [] out = "Undisputed"   -> <<"called on undisputed transaction">>
      [] out = "Unknown"      -> <<>>
      [] out = "Applied"      -> <<>>

\* line 119 echoes every record read, before the branch's own line
LogOf(out) == <<"record">> \o Diagnostic(out)

Init ==
    /\ accounts = <<>>
    /\ transactions = <<>>
    /\ disputed = {}
    /\ record = <<>>
    /\ txn = Err("")
    /\ outcome = "Start"
    /\ hist = <<>>
    /\ log = <<>>
    /\ report = <<>>

\* lines 117-259 for one record
Step(raw) ==
    LET res == ProcessRecord(accounts, transactions, disputed, raw)
    IN  /\ outcome # "Done"
        /\ accounts' = res.accounts
        /\ transactions' = res.transactions
        /\ disputed' = res.disputed
        /\ record' = raw
        /\ txn' = Parsed(raw)
        /\ outcome' = res.outcome
        /\ log' = LogOf(outcome')
        /\ UNCHANGED report

\* lines 112-116: the reader returned an error for this line
BadRecordStep ==
    /\ outcome # "Done"
    /\ record' = <<>>
    /\ txn' = Err("Bad record")
    /\ outcome' = "BadRecord"
    /\ log' = <<"Bad record">>
    /\ UNCHANGED <<core, report>>

\* the row with the available balance printed as the total
ReportRowTotalAvailable(client_id, acct_info) ==
    [client    |-> client_id,
     available |-> acct_info.available,
     held      |-> acct_info.held,
     total     |-> acct_info.available,
     locked    |-> acct_info.is_locked]

\* lines 267-274: the row of one account; total is computed here
ReportRow(client_id, acct_info) ==
    [client    |-> client_id,
     available |-> acct_info.available,
     held      |-> acct_info.held,
     total     |-> acct_info.available + acct_info.held,
     locked    |-> acct_info.is_locked]

\* the orders in which `for (client_id, acct_info) in accounts` may visit the map
Orders(keys) ==
    {o \in [1..Cardinality(keys) -> keys] : \A i, j \in DOMAIN o : i # j => o[i] # o[j]}

\* lines 262-277: the input is exhausted, the report is written; record and txn
\* are the loop's locals and are gone
ReportStep ==
    /\ outcome # "Done"
    /\ \E o \in Orders(DOMAIN accounts) :
          report' = [i \in DOMAIN o |-> ReportRow(o[i], accounts[o[i]])]
    /\ outcome' = "Done"
    /\ record' = <<>>
    /\ txn' = Err("")
    /\ log' = <<>>
    /\ UNCHANGED <<core, hist>>

\* lines 121-125
BadTxnStep(raw) == ~Parsed(raw).ok /\ Step(raw)

DepositStep(raw) == Parsed(raw).type = "Deposit" /\ Step(raw)

WithdrawalStep(raw) == Parsed(raw).type = "Withdrawal" /\ Step(raw)

DisputeStep(raw) == Parsed(raw).type = "Dispute" /\ Step(raw)

ResolveStep(raw) == Parsed(raw).type = "Resolve" /\ Step(raw)

ChargebackStep(raw) == Parsed(raw).type = "Chargeback" /\ Step(raw)

Next ==
    \/ BadRecordStep /\ UNCHANGED hist
    \/ \E raw \in Records : BadTxnStep(raw) /\ UNCHANGED hist
    \/ \E raw \in Records : DepositStep(raw) /\ UNCHANGED hist
    \/ \E raw \in Records : WithdrawalStep(raw) /\ UNCHANGED hist
    \/ \E raw \in Records : DisputeStep(raw) /\ UNCHANGED hist
    \/ \E raw \in Records : ResolveStep(raw) /\ UNCHANGED hist
    \/ \E raw \in Records : ChargebackStep(raw) /\ UNCHANGED hist
    \/ ReportStep

Spec == Init /\ [][Next]_vars

(***************************************************************************)
(* Runs that remember the reader's results: hist grows by the record read  *)
(* (<<>> for a reader error; the reader yields no record without fields).  *)
(***************************************************************************)
ReaderError == <<>>

RunBadRecord == Len(hist) < MaxRun /\ BadRecordStep /\ hist' = Append(hist, ReaderError)

RunBadTxn ==
    \E raw \in RunRecords : Len(hist) < MaxRun /\ BadTxnStep(raw) /\ hist' = Append(hist, raw)

RunDeposit ==
    \E raw \in RunRecords : Len(hist) < MaxRun /\ DepositStep(raw) /\ hist' = Append(hist, raw)

RunWithdrawal ==
    \E raw \in RunRecords :
        Len(hist) < MaxRun /\ WithdrawalStep(raw) /\ hist' = Append(hist, raw)

RunDispute ==
    \E raw \in RunRecords : Len(hist) < MaxRun /\ DisputeStep(raw) /\ hist' = Append(hist, raw)

RunResolve ==
    \E raw \in RunRecords : Len(hist) < MaxRun /\ ResolveStep(raw) /\ hist' = Append(hist, raw)

RunChargeback ==
    \E raw \in RunRecords :
        Len(hist) < MaxRun /\ ChargebackStep(raw) /\ hist' = Append(hist, raw)

NextRun ==
    \/ RunBadRecord
    \/ RunBadTxn
    \/ RunDeposit
    \/ RunWithdrawal
    \/ RunDispute
    \/ RunResolve
    \/ RunChargeback

SpecRun == Init /\ [][NextRun]_vars

\* the loop of lines 111-260 over a whole input, from the empty tables
RECURSIVE RunLoop(_)
RunLoop(input) ==
    IF Len(input) = 0 THEN Result(<<>>, <<>>, {}, "Start")
    ELSE LET before == RunLoop(SubSeq(input, 1, Len(input) - 1))
             item   == input[Len(input)]
         IN  IF item = ReaderError
             THEN Result(before.accounts, before.transactions, before.disputed, "BadRecord")
             ELSE ProcessRecord(before.accounts, before.transactions, before.disputed, item)

(***************************************************************************)
(* The adapter alone: one record is given, the loop body runs once on it   *)
(* from the empty tables.                                                  *)
(***************************************************************************)
InitAdapter ==
    /\ accounts = <<>>
    /\ transactions = <<>>
    /\ disputed = {}
    /\ record \in AdapterRecords
    /\ txn = Err("")
    /\ outcome = "Read"
    /\ hist = <<>>
    /\ log = <<>>
    /\ report = <<>>

AdaptBadTxn == outcome = "Read" /\ BadTxnStep(record) /\ UNCHANGED hist

AdaptDeposit == outcome = "Read" /\ DepositStep(record) /\ UNCHANGED hist

AdaptWithdrawal == outcome = "Read" /\ WithdrawalStep(record) /\ UNCHANGED hist

AdaptDispute == outcome = "Read" /\ DisputeStep(record) /\ UNCHANGED hist

AdaptResolve == outcome = "Read" /\ ResolveStep(record) /\ UNCHANGED hist

AdaptChargeback == outcome = "Read" /\ ChargebackStep(record) /\ UNCHANGED hist

NextAdapter ==
    \/ AdaptBadTxn
    \/ AdaptDeposit
    \/ AdaptWithdrawal
    \/ AdaptDispute
    \/ AdaptResolve
    \/ AdaptChargeback

SpecAdapter == InitAdapter /\ [][NextAdapter]_vars

(***************************************************************************)
(* Vocabulary of the properties.                                           *)
(***************************************************************************)
IsMoney(ev) == ev.ok /\ ev.type \in {"Deposit", "Withdrawal"}

IsDisputeFamily(ev) == ev.ok /\ ev.type \in {"Dispute", "Resolve", "Chargeback"}

Known(tx) == tx \in DOMAIN transactions

IsLocked(c) == c \in DOMAIN accounts /\ accounts[c].is_locked

\* the balances of client c, an absent account counting as a new one
Account(c) == IF c \in DOMAIN accounts THEN accounts[c] ELSE AccountInfoDefault

Rejected(out) == out \in {"Locked", "Duplicate", "Insufficient", "Unknown", "Mismatch",
                          "NotEnough", "Undisputed"}

\* the step leaves available, held and locked of every account as they were;
\* an account the step creates has the default values
BalancesUnchanged ==
    /\ \A c \in DOMAIN accounts : c \in DOMAIN accounts' /\ accounts'[c] = accounts[c]
    /\ \A c \in DOMAIN accounts' : c \notin DOMAIN accounts => accounts'[c] = AccountInfoDefault

\* every stored transaction record stays as it is
RecordsKept ==
    \A t \in DOMAIN transactions : t \in DOMAIN transactions' /\ transactions'[t] = transactions[t]

(***************************************************************************)
(* C1.  A Withdrawal rejected for insufficient funds (amount > available,  *)
(* account unlocked, tx id not in the table) leaves the transaction table  *)
(* as it was, and a Deposit/Withdrawal adds a record exactly when it       *)
(* updates a balance.  The code inserts the record before it tests the     *)
(* balance, so this is violated.                                           *)
(***************************************************************************)
C1_RejectedWithdrawalNotRecorded ==
    [][ /\ (/\ txn'.ok /\ txn'.type = "Withdrawal"
            /\ ~IsLocked(txn'.client)
            /\ ~Known(txn'.tx)
            /\ txn'.amount > Account(txn'.client).available)
           => transactions' = transactions
        /\ IsMoney(txn')
           => ((DOMAIN transactions' # DOMAIN transactions)
                 <=> (Account(txn'.client).available # accounts'[txn'.client].available))
      ]_vars

(***************************************************************************)
(* C2.  Once an account is locked, every later event of that client is     *)
(* rejected and the account's available, held and locked never change.     *)
(***************************************************************************)
C2_LockedIsFrozen ==
    [][ \A c \in DOMAIN accounts :
            accounts[c].is_locked =>
                /\ accounts'[c] = accounts[c]
                /\ (txn'.ok /\ txn'.client = c) => Rejected(outcome')
      ]_vars

C2_Witness ==
    /\ outcome = "Locked"
    /\ txn.type = "Deposit"
    /\ accounts[txn.client].is_locked
    /\ ~Known(txn.tx)

(***************************************************************************)
(* C3.  A Withdrawal of more than the available balance is rejected and    *)
(* changes no account's available, held or locked; a client without an     *)
(* account gets one with available = 0, held = 0, locked = false.          *)
(***************************************************************************)
C3_OverdrawRejected ==
    [][ (/\ txn'.ok /\ txn'.type = "Withdrawal"
         /\ txn'.amount > Account(txn'.client).available)
        => /\ Rejected(outcome')
           /\ BalancesUnchanged
           /\ DOMAIN accounts' = DOMAIN accounts \cup {txn'.client}
           /\ txn'.client \notin DOMAIN accounts
                => accounts'[txn'.client] = AccountInfoDefault
      ]_vars

C3_Witness ==
    /\ outcome = "Insufficient"
    /\ txn.type = "Withdrawal"
    /\ accounts[txn.client] = AccountInfoDefault
    /\ \A t \in DOMAIN transactions : t = txn.tx

(***************************************************************************)
(* C4.  A Deposit or Withdrawal whose tx id is in the transaction table is *)
(* rejected (as a duplicate when the account is not locked), whatever the  *)
(* kind and client of the stored record; it changes no balance, and no     *)
(* step ever changes a stored record.                                      *)
(***************************************************************************)
C4_DuplicateRejected ==
    [][ /\ (IsMoney(txn') /\ Known(txn'.tx))
           => /\ Rejected(outcome')
              /\ ~IsLocked(txn'.client) => outcome' = "Duplicate"
              /\ BalancesUnchanged
        /\ RecordsKept
      ]_vars

\* a Withdrawal reusing the id of another client's Deposit
C4_Witness ==
    /\ outcome = "Duplicate"
    /\ txn.type = "Withdrawal"
    /\ transactions[txn.tx].kind = "DepositKind"
    /\ transactions[txn.tx].client # txn.client
    /\ transactions[txn.tx].amount # txn.amount

(***************************************************************************)
(* C5.  A Dispute, Resolve or Chargeback of a tx id that is not in the     *)
(* transaction table changes nothing: not the accounts (nor which exist),  *)
(* not the transaction table, not the dispute set.                         *)
(***************************************************************************)
C5_UnknownTxNoOp ==
    [][ (IsDisputeFamily(txn') /\ ~Known(txn'.tx)) => UNCHANGED core ]_vars

C5_Witness ==
    /\ outcome = "Unknown"
    /\ txn.type = "Chargeback"
    /\ txn.client \notin DOMAIN accounts
    /\ DOMAIN accounts # {}
(***************************************************************************)
(* C6.  Whenever Dispute(c, tx) succeeds, Resolve(c, tx) applied to the    *)
(* state it leaves succeeds and puts available and held of c back to what  *)
(* they were before the Dispute, with locked false and tx out of the       *)
(* dispute set; deposit 7.5, dispute, resolve on a new account ends at     *)
(* available = 7.5, held = 0, locked = false.                              *)
(***************************************************************************)
C6_DisputeResolveRoundTrip ==
    /\ [][ (txn'.ok /\ txn'.type = "Dispute" /\ outcome' = "Applied")
           => LET c == txn'.client
                  r == Resolve(accounts', transactions', disputed', c, txn'.tx)
              IN  /\ r.outcome = "Applied"
                  /\ r.accounts[c].available = accounts[c].available
                  /\ r.accounts[c].held = accounts[c].held
                  /\ r.accounts[c].is_locked = FALSE
                  /\ txn'.tx \notin r.disputed
         ]_vars
    /\ [](RunLoop(Scenario3).accounts[3]
            = [available |-> 75000, held |-> 0, is_locked |-> FALSE])

\* a Resolve has just released the only hold of its client
C6_Witness ==
    /\ outcome = "Applied"
    /\ txn.type = "Resolve"
    /\ txn.tx \notin disputed
    /\ accounts[txn.client].held = 0
    /\ accounts[txn.client].available >= transactions[txn.tx].amount
    /\ ~accounts[txn.client].is_locked

(***************************************************************************)
(* C7.  A Chargeback(c, tx) of a known tx owned by c, on an unlocked       *)
(* account, with tx in the dispute set, succeeds: held of c decreases by   *)
(* the transaction's amount, available is unchanged, locked becomes true   *)
(* and tx leaves the dispute set.  A deposit on a new account, its dispute *)
(* and its chargeback end at available = 0, held = 0, locked = true.       *)
(***************************************************************************)
C7_Chargeback ==
    /\ [][ (/\ txn'.ok /\ txn'.type = "Chargeback"
            /\ Known(txn'.tx)
            /\ transactions[txn'.tx].client = txn'.client
            /\ ~IsLocked(txn'.client)
            /\ txn'.tx \in disputed)
           => LET c == txn'.client
              IN  /\ outcome' = "Applied"
                  /\ accounts'[c].held = accounts[c].held - transactions[txn'.tx].amount
                  /\ accounts'[c].available = accounts[c].available
                  /\ accounts'[c].is_locked = TRUE
                  /\ disputed' = disputed \ {txn'.tx}
         ]_vars
    /\ [](/\ RunLoop(Scenario2).accounts[2]
               = [available |-> 0, held |-> 0, is_locked |-> TRUE]
          /\ \A c \in ClientToks, t \in TxToks, a \in AmountToks :
                RunLoop(<<Rec4(KwDeposit, c, t, a), Rec3(KwDispute, c, t),
                          Rec3(KwChargeback, c, t)>>).accounts[ParseClientId(c).val]
                   = [available |-> 0, held |-> 0, is_locked |-> TRUE])

C7_Witness ==
    /\ outcome = "Applied"
    /\ txn.type = "Chargeback"
    /\ txn.tx \notin disputed
    /\ accounts[txn.client] = [available |-> 0, held |-> 0, is_locked |-> TRUE]

(***************************************************************************)
(* C8.  A Deposit on an unlocked account with a new tx id adds exactly     *)
(* amount to available and stores (Deposit, client, amount) under tx; a    *)
(* Withdrawal on an unlocked account with a new tx id and amount <=        *)
(* available subtracts exactly amount and stores (Withdrawal, client,      *)
(* amount); held and locked stay.  Deposit 5.0, deposit 3.0, withdrawal    *)
(* 2.0 on a new account end at available = 6.0, held = 0, locked = false.  *)
(***************************************************************************)
C8_DepositWithdrawal ==
    /\ [][ (/\ IsMoney(txn')
            /\ ~IsLocked(txn'.client)
            /\ ~Known(txn'.tx)
            /\ txn'.type = "Withdrawal" => txn'.amount <= Account(txn'.client).available)
           => LET c    == txn'.client
                  sign == IF txn'.type = "Deposit" THEN 1 ELSE 0 - 1
                  kind == IF txn'.type = "Deposit" THEN "DepositKind" ELSE "WithdrawalKind"
              IN  /\ outcome' = "Applied"
                  /\ accounts'[c].available = Account(c).available + sign * txn'.amount
                  /\ accounts'[c].held = Account(c).held
                  /\ accounts'[c].is_locked = FALSE
                  /\ DOMAIN transactions' = DOMAIN transactions \cup {txn'.tx}
                  /\ transactions'[txn'.tx]
                        = [kind |-> kind, client |-> c, amount |-> txn'.amount]
         ]_vars
    /\ [](RunLoop(Scenario1).accounts[1]
            = [available |-> 60000, held |-> 0, is_locked |-> FALSE])

\* an accepted Withdrawal that left part of the deposited funds
C8_Witness ==
    /\ outcome = "Applied"
    /\ txn.type = "Withdrawal"
    /\ transactions[txn.tx] = [kind |-> "WithdrawalKind", client |-> txn.client,
                               amount |-> txn.amount]
    /\ accounts[txn.client].available > 0
    /\ accounts[txn.client].held = 0
(***************************************************************************)
(* C9.  A record rejected at parse level (a reader error, or a record the  *)
(* adapter rejects) changes no account, no transaction record and no       *)
(* dispute-set entry, and after any input the tables equal those of the    *)
(* loop run over the same input without the parse-rejected records, the    *)
(* other records in their input order.                                     *)
(***************************************************************************)
ParseAccepted(item) == item # ReaderError /\ ParseRecord(item).ok

C9_ParseRejectedSkipped ==
    LET kept == RunLoop(SelectSeq(hist, ParseAccepted))
    IN  /\ accounts = kept.accounts
        /\ transactions = kept.transactions
        /\ disputed = kept.disputed

\* an event was applied after a malformed record that followed another event
C9_Witness ==
    /\ Len(hist) = 3
    /\ ParseAccepted(hist[1])
    /\ ~ParseAccepted(hist[2])
    /\ ParseAccepted(hist[3])
    /\ outcome = "Applied"
    /\ txn.type = "Dispute"
    /\ disputed # {}

(***************************************************************************)
(* C10.  The adapter accepts a (trimmed) record exactly when it has 3      *)
(* fields, a dispute, resolve or chargeback keyword and two ids that       *)
(* parse, or 4 fields, a deposit or withdrawal keyword, two ids that parse *)
(* and an amount that is strictly positive once rounded to 4 fractional    *)
(* digits; so every amount handed to the engine or stored in the           *)
(* transaction table is strictly positive.                                 *)
(***************************************************************************)
\* the decimal is more than half a ten-thousandth above zero: exactly the
\* values that round (half to even) to 0.0001 or more
RoundsPositive(d) ==
    /\ ~d.neg
    /\ IF d.scale <= AmountDp THEN d.mant > 0
       ELSE 2 * d.mant > Pow10(d.scale - AmountDp)

Acceptable(r) ==
    \/ /\ Len(r) = 3
       /\ r[1] \in {KwDispute, KwResolve, KwChargeback}
       /\ ParseClientId(r[2]).ok
       /\ ParseTxnId(r[3]).ok
    \/ /\ Len(r) = 4
       /\ r[1] \in {KwDeposit, KwWithdrawal}
       /\ ParseClientId(r[2]).ok
       /\ ParseTxnId(r[3]).ok
       /\ ParseDecimal(r[4]).ok
       /\ RoundsPositive(ParseDecimal(r[4]))

C10_AdapterAccepts ==
    /\ outcome # "Read" =>
          /\ txn.ok <=> Acceptable(TrimRecord(record))
          /\ ~txn.ok <=> outcome = "BadTxn"
          /\ IsMoney(txn) => txn.amount > 0
    /\ \A t \in DOMAIN transactions : transactions[t].amount > 0

\* 0.00015 was accepted as 0.0002 and stored
C10_Witness ==
    /\ outcome = "Applied"
    /\ txn.type = "Deposit"
    /\ record[4] = <<"0", ".", "0", "0", "0", "1", "5">>
    /\ transactions[txn.tx].amount = 2
(***************************************************************************)
(* C11.  As claimed: every event the engine rejects writes a rejection     *)
(* line to the log after the echo of its record, also a Dispute, Resolve   *)
(* or Chargeback of a tx id that is not in the transaction table.  The     *)
(* three arms continue at the failed lookup without writing anything.      *)
(***************************************************************************)
C11_EveryRejectionLogged ==
    [][ Rejected(outcome') => (log'[1] = "record" /\ Len(log') >= 2) ]_vars

(***************************************************************************)
(* C11, amended.  Every event the engine rejects writes a rejection line   *)
(* to the log after the echo of its record, except a Dispute, Resolve or   *)
(* Chargeback of a tx id that is not in the transaction table, which       *)
(* writes the echo alone; and after any rejection every record can still   *)
(* be processed.                                                           *)
(***************************************************************************)
C11_RejectionLoggedUnlessUnknown ==
    /\ [][ Rejected(outcome')
           => /\ log'[1] = "record"
              /\ Len(log') >= 2 <=> outcome' # "Unknown"
              /\ outcome' = "Unknown" => (IsDisputeFamily(txn') /\ ~Known(txn'.tx))
         ]_vars
    /\ [](Rejected(outcome) => \A raw \in Records : ENABLED Step(raw))

\* an owner mismatch was logged
C11_Witness ==
    /\ outcome = "Mismatch"
    /\ log = <<"record", "transaction clients don't match">>
(***************************************************************************)
(* C12.  The report has exactly one row for every account of the account   *)
(* table and no other row; the total of a row is the account's available   *)
(* plus its held at the end of the run; an account stores no total.        *)
(***************************************************************************)
C12_ReportTotals ==
    /\ \A c \in DOMAIN accounts : DOMAIN accounts[c] = {"available", "held", "is_locked"}
    /\ outcome = "Done" =>
          /\ Len(report) = Cardinality(DOMAIN accounts)
          /\ \A c \in DOMAIN accounts :
                Cardinality({i \in 1..Len(report) : report[i].client = c}) = 1
          /\ \A i \in 1..Len(report) :
                /\ report[i].client \in DOMAIN accounts
                /\ report[i].available = accounts[report[i].client].available
                /\ report[i].held = accounts[report[i].client].held
                /\ report[i].locked = accounts[report[i].client].is_locked
                /\ report[i].total = accounts[report[i].client].available
                                       + accounts[report[i].client].held

\* a report of two accounts, one of them with funds on both sides
C12_Witness ==
    /\ outcome = "Done"
    /\ Len(report) = 2
    /\ \E i \in 1..2 : report[i].available > 0 /\ report[i].held > 0 /\ report[i].total > 0
(***************************************************************************)
(* C13.  A Dispute(c, tx) of a known tx owned by c on an unlocked account  *)
(* succeeds exactly when available >= the stored amount.  It then moves    *)
(* that amount from available to held, leaves locked false and puts tx in  *)
(* the dispute set; otherwise available, held, locked and the dispute set  *)
(* are unchanged.                                                          *)
(***************************************************************************)
C13_Dispute ==
    [][ (/\ txn'.ok /\ txn'.type = "Dispute"
         /\ Known(txn'.tx)
         /\ transactions[txn'.tx].client = txn'.client
         /\ ~IsLocked(txn'.client))
        => LET c      == txn'.client
               amount == transactions[txn'.tx].amount
           IN  /\ outcome' = "Applied" <=> accounts[c].available >= amount
               /\ outcome' = "Applied" =>
                     /\ accounts'[c].available = accounts[c].available - amount
                     /\ accounts'[c].held = accounts[c].held + amount
                     /\ accounts'[c].available + accounts'[c].held
                          = accounts[c].available + accounts[c].held
                     /\ accounts'[c].is_locked = FALSE
                     /\ disputed' = disputed \cup {txn'.tx}
               /\ outcome' # "Applied" =>
                     /\ outcome' = "NotEnough"
                     /\ accounts'[c] = accounts[c]
                     /\ disputed' = disputed
      ]_vars

\* a Dispute that took the whole available balance
C13_Witness ==
    /\ outcome = "Applied"
    /\ txn.type = "Dispute"
    /\ accounts[txn.client].available = 0
    /\ accounts[txn.client].held = transactions[txn.tx].amount
    /\ disputed = {txn.tx}

(***************************************************************************)
(* C14.  A Dispute, Resolve or Chargeback of a known tx whose client is    *)
(* not the owner of tx, or a Resolve or Chargeback of a known tx that is   *)
(* not in the dispute set, is rejected and leaves every account, the       *)
(* transaction table and the dispute set as they were.                     *)
(***************************************************************************)
C14_RejectedDisputeFamily ==
    [][ (/\ IsDisputeFamily(txn')
         /\ Known(txn'.tx)
         /\ \/ transactions[txn'.tx].client # txn'.client
            \/ txn'.type \in {"Resolve", "Chargeback"} /\ txn'.tx \notin disputed)
        => /\ Rejected(outcome')
           /\ transactions[txn'.tx].client # txn'.client => outcome' = "Mismatch"
           /\ UNCHANGED core
      ]_vars

\* a Chargeback of an undisputed transaction of an account holding funds
C14_Witness ==
    /\ outcome = "Undisputed"
    /\ txn.type = "Chargeback"
    /\ accounts[txn.client].held > 0
    /\ ~accounts[txn.client].is_locked
(***************************************************************************)
(* C15.  The dispute set changes only by an applied Dispute, which adds    *)
(* its tx, and by an applied Resolve or Chargeback, which removes its tx;  *)
(* it is always a subset of the ids of the transaction table.  A Resolve   *)
(* or Chargeback is applied only to a tx in the dispute set, so right      *)
(* after one is applied a further Resolve or Chargeback of the same tx is  *)
(* rejected.                                                               *)
(***************************************************************************)
C15_DisputeSet ==
    /\ [][ /\ disputed' # disputed =>
                /\ outcome' = "Applied"
                /\ IsDisputeFamily(txn')
                /\ txn'.type = "Dispute" => disputed' = disputed \cup {txn'.tx}
                /\ txn'.type # "Dispute" => disputed' = disputed \ {txn'.tx}
           /\ (outcome' = "Applied" /\ IsDisputeFamily(txn')) =>
                /\ txn'.type = "Dispute" => txn'.tx \in disputed'
                /\ txn'.type # "Dispute" => txn'.tx \in disputed /\ txn'.tx \notin disputed'
         ]_vars
    /\ [](disputed \subseteq DOMAIN transactions)
    /\ []((outcome = "Applied" /\ IsDisputeFamily(txn) /\ txn.type # "Dispute") =>
            \A typ \in {"Resolve", "Chargeback"} : \A c \in 1..2 :
                Rejected(Apply(accounts, transactions, disputed,
                               [txn EXCEPT !.type = typ, !.client = c]).outcome))

\* a Resolve closed one dispute while another stays open
C15_Witness ==
    /\ outcome = "Applied"
    /\ txn.type = "Resolve"
    /\ txn.tx \notin disputed
    /\ disputed # {}
(***************************************************************************)
(* C16.  An account is unlocked when it is created, becomes locked only by *)
(* an applied Chargeback whose client it is, and once locked stays locked; *)
(* a Chargeback is applied only to an unlocked account and locks it, so no *)
(* Chargeback of a locked client is applied and each client has at most    *)
(* one applied Chargeback.                                                 *)
(***************************************************************************)
C16_LockedOnce ==
    /\ [][ /\ DOMAIN accounts \subseteq DOMAIN accounts'
           /\ \A c \in DOMAIN accounts' :
                /\ c \notin DOMAIN accounts => ~accounts'[c].is_locked
                /\ IsLocked(c) => accounts'[c].is_locked
                /\ (c \in DOMAIN accounts /\ ~IsLocked(c) /\ accounts'[c].is_locked) =>
                      /\ outcome' = "Applied"
                      /\ txn'.type = "Chargeback"
                      /\ txn'.client = c
           /\ (outcome' = "Applied" /\ txn'.ok /\ txn'.type = "Chargeback") =>
                /\ ~IsLocked(txn'.client)
                /\ accounts'[txn'.client].is_locked
         ]_vars
    /\ [](\A c \in DOMAIN accounts : accounts[c].is_locked =>
            \A t \in DOMAIN transactions :
                Chargeback(accounts, transactions, disputed, c, t).outcome # "Applied")

\* a Chargeback of an open dispute refused because the account is locked
C16_Witness ==
    /\ outcome = "Locked"
    /\ txn.type = "Chargeback"
    /\ txn.tx \in disputed
    /\ transactions[txn.tx].client = txn.client
\* the transaction table with the kind of the record of tx turned over
FlipKind(txns, tx) ==
    [txns EXCEPT ![tx].kind = IF @ = "DepositKind" THEN "WithdrawalKind" ELSE "DepositKind"]

(***************************************************************************)
(* C17.  Dispute, Resolve and Chargeback do not read the stored kind: in   *)
(* every reachable state and for every stored tx, the same event applied   *)
(* to the state and to the state with the kind of tx turned over has the   *)
(* same outcome and yields the same accounts and the same dispute set.     *)
(***************************************************************************)
C17_KindIgnored ==
    \A tx \in DOMAIN transactions : \A c \in 1..2 :
        \A typ \in {"Dispute", "Resolve", "Chargeback"} :
            LET ev == [type |-> typ, client |-> c, tx |-> tx]
                r1 == Apply(accounts, transactions, disputed, ev)
                r2 == Apply(accounts, FlipKind(transactions, tx), disputed, ev)
            IN  /\ FlipKind(transactions, tx) # transactions
                /\ r1.outcome = r2.outcome
                /\ r1.accounts = r2.accounts
                /\ r1.disputed = r2.disputed

\* an applied Dispute of a stored withdrawal
C17_Witness ==
    /\ outcome = "Applied"
    /\ txn.type = "Dispute"
    /\ transactions[txn.tx].kind = "WithdrawalKind"
    /\ accounts[txn.client].held = transactions[txn.tx].amount
(***************************************************************************)
(* C18.  In every reachable state, whatever the order of the events, every *)
(* account has available >= 0 and held >= 0.                               *)
(***************************************************************************)
C18_NonNegative ==
    \A c \in DOMAIN accounts : accounts[c].available >= 0 /\ accounts[c].held >= 0

\* a Dispute refused for lack of available funds while another dispute holds funds
C18_Witness ==
    /\ outcome = "NotEnough"
    /\ accounts[txn.client].available < transactions[txn.tx].amount
    /\ accounts[txn.client].held > 0
\* the sum of the stored amounts of the transactions of the set txs
RECURSIVE SumAmounts(_)
SumAmounts(txs) ==
    IF txs = {} THEN 0
    ELSE LET t == CHOOSE t \in txs : TRUE
         IN  transactions[t].amount + SumAmounts(txs \ {t})

\* the open disputes of client c
OpenDisputes(c) == {t \in disputed : transactions[t].client = c}

(***************************************************************************)
(* C19.  In every reachable state the held balance of each account is the  *)
(* sum of the stored amounts of the transactions of that client that are   *)
(* in the dispute set, also after a Dispute of a tx already in the set.    *)
(***************************************************************************)
C19_HeldIsOpenDisputes ==
    \A c \in DOMAIN accounts : accounts[c].held = SumAmounts(OpenDisputes(c))
(***************************************************************************)
(* C20.  An event whose client is c, accepted or rejected and whichever tx *)
(* it names, leaves available, held and locked of every account other than *)
(* c as they were, and creates and removes no account other than c.        *)
(***************************************************************************)
C20_AccountsIndependent ==
    [][ txn'.ok =>
          /\ \A d \in DOMAIN accounts :
                d # txn'.client => d \in DOMAIN accounts' /\ accounts'[d] = accounts[d]
          /\ \A d \in DOMAIN accounts' :
                d # txn'.client => d \in DOMAIN accounts
      ]_vars

\* a Dispute by another client of a transaction its owner could have disputed
C20_Witness ==
    /\ outcome = "Mismatch"
    /\ txn.type = "Dispute"
    /\ ~accounts[transactions[txn.tx].client].is_locked
    /\ accounts[transactions[txn.tx].client].available >= transactions[txn.tx].amount
    /\ txn.client \in DOMAIN accounts
    /\ accounts[txn.client].available > 0

====
